---- MODULE Spec2Model ----
(***************************************************************************)
(* Model of scripts/create_splash_lottie.py: the splash-animation          *)
(* generator of ReceiptKeeper.                                             *)
(*                                                                         *)
(* Python values are modelled as follows.                                  *)
(*   dict            -> record (a function over the key strings)           *)
(*   list            -> sequence; Python's index i is index i+1 here       *)
(*   None            -> PyNone (the empty function, falsy like None)       *)
(*   float           -> an integer in a fixed unit, named where it is used *)
(*                      (colours in 1/1000, easing controls in 1/100,      *)
(*                      the duration in 1/10 s)                            *)
(* A value handed to keyframe() carries its Python type, because           *)
(* keyframe() branches on isinstance(value, list): PyList(s) and PyNum(n). *)
(***************************************************************************)
EXTENDS Integers, Sequences, FiniteSets, TLC

VARIABLES
    globals,    \* the module-level names: FPS, DURATION_SECONDS, TOTAL_FRAMES
    pc,         \* position of main() (or of the harness) in its code
    run,        \* which execution of main() this is
    animation,  \* the document create_lottie_animation() is building / returned
    evaluated,  \* how many elements of its layer list have been evaluated
    env,        \* the file system around the output path
    disk,       \* content of ../assets/splash_animation.json on the device
    handle,     \* the open file object f: accepted chunks not yet on the device
    stdout,     \* the lines printed so far by this run
    error,      \* the exception surfaced to the caller, or "none"
    prevRun,    \* what the previous execution left: its outcome, document, file
    ret         \* harness: the last constructor call and what it returned

vars == <<globals, pc, run, animation, evaluated, env, disk, handle, stdout, error, prevRun, ret>>

----------------------------------------------------------------------------
(* Bounds of the model *)

\* executions of main() in a row
MaxRuns == 2
\* largest frame number the harness passes to a constructor
MaxFrame == 4
\* largest frame rate the configuration ranges over
MaxFps == 60
\* longest duration the configuration ranges over, in tenths of a second
MaxTenths == 30

----------------------------------------------------------------------------
(* Module-level constants, lines 14-25 *)

CANVAS_WIDTH == 200
CANVAS_HEIGHT == 200
FPS == 60
\* DURATION_SECONDS = 2.0, in tenths of a second
DURATION_SECONDS == 20

\* The double FPS * DURATION_SECONDS falls just below the exact product for
\* these (frame rate, tenths) pairs (IEEE-754 binary64, round-to-nearest), so
\* that int() drops a whole frame. The table is complete for frame rates up
\* to 64 and durations up to 4.0 s.
FloatBelow == {<<45, 14>>, <<45, 28>>, <<50, 23>>}

\* int(fps * duration): truncation toward zero of the double product
PyIntOfProduct(fps, tenths) ==
    IF <<fps, tenths>> \in FloatBelow
    THEN ((fps * tenths) \div 10) - 1
    ELSE (fps * tenths) \div 10

\* line 19
TOTAL_FRAMES(fps, tenths) == PyIntOfProduct(fps, tenths)

\* the module's globals after lines 15-19 have run
ModuleGlobals(fps, tenths) ==
    [FPS |-> fps, DURATION_SECONDS |-> tenths,
     TOTAL_FRAMES |-> TOTAL_FRAMES(fps, tenths)]

\* colours, components in 1/1000
WHITE == <<1000, 1000, 1000, 1000>>
GRAY_LINE == <<878, 878, 878, 1000>>
GREEN == <<133, 773, 369, 1000>>
BG_COLOR == <<43, 239, 180, 1000>>

----------------------------------------------------------------------------
(* Python values *)

PyNone == <<>>
PyList(s) == [list |-> TRUE, v |-> s]
PyNum(n) == [list |-> FALSE, v |-> n]
\* truth value of an easing argument: None and {} are falsy
Truthy(d) == DOMAIN d # {}

----------------------------------------------------------------------------
(* Value and keyframe helpers, lines 27-54 *)

\* control points in 1/100
create_bezier_easing(x1, y1, x2, y2) ==
    [i |-> [x |-> <<x2>>, y |-> <<y2>>],
     o |-> [x |-> <<x1>>, y |-> <<y1>>]]

EASE_OUT == create_bezier_easing(0, 0, 20, 100)
EASE_IN_OUT == create_bezier_easing(42, 0, 58, 100)
EASE_OUT_BACK == create_bezier_easing(0, 0, 20, 140)

animated_value(keyframes) == [a |-> 1, k |-> keyframes]

static_value(value) == [a |-> 0, k |-> value]

\* d.update(e): e's keys are added to d, overwriting the ones d has
Update(d, e) ==
    [key \in DOMAIN d \cup DOMAIN e |-> IF key \in DOMAIN e THEN e[key] ELSE d[key]]

\* variant: the easing argument is dropped
keyframe_NoEasing(time, value, easing, hold) ==
    LET kf0 == [t |-> time, s |-> IF value.list THEN value.v ELSE <<value.v>>]
    IN  IF hold THEN Update(kf0, [h |-> 1]) ELSE kf0

keyframe(time, value, easing, hold) ==
    LET kf0 == [t |-> time, s |-> IF value.list THEN value.v ELSE <<value.v>>]
        kf1 == IF Truthy(easing) THEN Update(kf0, easing) ELSE kf0
    IN  IF hold THEN Update(kf1, [h |-> 1]) ELSE kf1

----------------------------------------------------------------------------
(* Shape and style constructors, lines 56-126 *)

\* width/2 and height/2 are floats in the source; the one call site passes
\* even sizes, so whole units are exact
create_rect_shape(x, y, width, height, roundness) ==
    [ty |-> "rc",
     p |-> static_value(<<x + (width \div 2), y + (height \div 2)>>),
     s |-> static_value(<<width, height>>),
     r |-> static_value(roundness)]

create_fill(color) ==
    [ty |-> "fl", c |-> static_value(color), o |-> static_value(100)]

create_stroke(color, width) ==
    [ty |-> "st", c |-> static_value(color), o |-> static_value(100),
     w |-> static_value(width), lc |-> 2, lj |-> 2]

create_ellipse(cx, cy, rx, ry) ==
    [ty |-> "el", p |-> static_value(<<cx, cy>>),
     s |-> static_value(<<rx * 2, ry * 2>>)]

create_path(path_data) ==
    [ty |-> "sh", ks |-> static_value(path_data)]

\* start_frames is a two-element list: start_frames[0], start_frames[1] in
\* the source are start_frames[1], start_frames[2] here
create_trim(start_frames, end_frame) ==
    [ty |-> "tm",
     s |-> animated_value(<<
            keyframe(start_frames[1], PyNum(0), EASE_OUT, FALSE),
            keyframe(start_frames[2], PyNum(0), EASE_OUT, FALSE),
            keyframe(end_frame, PyNum(0), PyNone, FALSE) >>),
     e |-> animated_value(<<
            keyframe(start_frames[1], PyNum(0), EASE_OUT, FALSE),
            keyframe(start_frames[2], PyNum(0), EASE_OUT, FALSE),
            keyframe(end_frame, PyNum(100), PyNone, FALSE) >>),
     o |-> static_value(0),
     m |-> 1]

create_transform(anchor, position, scale, rotation, opacity) ==
    [ty |-> "tr",
     a |-> static_value(anchor),
     p |-> static_value(position),
     s |-> static_value(scale),
     r |-> static_value(rotation),
     o |-> static_value(opacity)]

\* create_transform() with every argument at its default
create_transform_default == create_transform(<<0, 0>>, <<0, 0>>, <<100, 100>>, 0, 100)

\* an omitted (None) or empty keyframe list leaves the property static
create_animated_transform(anchor, position_kf, scale_kf, rotation_kf, opacity_kf) ==
    [ty |-> "tr",
     a |-> static_value(anchor),
     p |-> IF Len(position_kf) > 0 THEN animated_value(position_kf)
           ELSE static_value(<<0, 0>>),
     s |-> IF Len(scale_kf) > 0 THEN animated_value(scale_kf)
           ELSE static_value(<<100, 100>>),
     r |-> IF Len(rotation_kf) > 0 THEN animated_value(rotation_kf)
           ELSE static_value(0),
     o |-> IF Len(opacity_kf) > 0 THEN animated_value(opacity_kf)
           ELSE static_value(100)]

----------------------------------------------------------------------------
(* Layer builders, lines 157-310. They read the global TOTAL_FRAMES. *)

\* variant: the fade lasts as long as the scale ramp
create_receipt_layer_FadeToEnd ==
    LET start_frame == 0
        end_frame == 25
    IN  [ty |-> 4,
         nm |-> "Receipt Paper",
         sr |-> 1,
         ks |-> [a |-> static_value(<<100, 100>>),
                 p |-> static_value(<<100, 100>>),
                 s |-> animated_value(<<
                        keyframe(start_frame, PyList(<<0, 0>>), EASE_OUT_BACK, FALSE),
                        keyframe(end_frame, PyList(<<100, 100>>), PyNone, FALSE) >>),
                 r |-> static_value(0),
                 o |-> animated_value(<<
                        keyframe(start_frame, PyList(<<0>>), EASE_OUT, FALSE),
                        keyframe(end_frame, PyList(<<100>>), PyNone, FALSE) >>)],
         shapes |-> << [ty |-> "gr",
                        it |-> << create_rect_shape(40, 20, 120, 160, 8),
                                  create_fill(WHITE),
                                  create_transform_default >>,
                        nm |-> "Paper"] >>,
         ip |-> 0,
         op |-> globals.TOTAL_FRAMES,
         st |-> 0]

create_receipt_layer ==
    LET start_frame == 0
        end_frame == 25
    IN  [ty |-> 4,
         nm |-> "Receipt Paper",
         sr |-> 1,
         ks |-> [a |-> static_value(<<100, 100>>),
                 p |-> static_value(<<100, 100>>),
                 s |-> animated_value(<<
                        keyframe(start_frame, PyList(<<0, 0>>), EASE_OUT_BACK, FALSE),
                        keyframe(end_frame, PyList(<<100, 100>>), PyNone, FALSE) >>),
                 r |-> static_value(0),
                 o |-> animated_value(<<
                        keyframe(start_frame, PyList(<<0>>), EASE_OUT, FALSE),
                        keyframe(end_frame - 10, PyList(<<100>>), PyNone, FALSE) >>)],
         shapes |-> << [ty |-> "gr",
                        it |-> << create_rect_shape(40, 20, 120, 160, 8),
                                  create_fill(WHITE),
                                  create_transform_default >>,
                        nm |-> "Paper"] >>,
         ip |-> 0,
         op |-> globals.TOTAL_FRAMES,
         st |-> 0]

\* variant: the reveal lasts 10 frames
create_line_layer_ShortReveal(y_pos, width, delay_frame, name) ==
    LET start_frame == delay_frame
        end_frame == delay_frame + 10
        line_path == [c |-> FALSE,
                      v |-> << <<55, y_pos>>, <<55 + width - 55, y_pos>> >>,
                      i |-> << <<0, 0>>, <<0, 0>> >>,
                      o |-> << <<0, 0>>, <<0, 0>> >>]
    IN  [ty |-> 4,
         nm |-> name,
         sr |-> 1,
         ks |-> [a |-> static_value(<<0, 0>>),
                 p |-> static_value(<<0, 0>>),
                 s |-> static_value(<<100, 100>>),
                 r |-> static_value(0),
                 o |-> static_value(100)],
         shapes |-> << [ty |-> "gr",
                        it |-> << create_path(line_path),
                                  create_stroke(GRAY_LINE, 3),
                                  create_trim(<<start_frame, start_frame>>, end_frame),
                                  create_transform_default >>,
                        nm |-> name] >>,
         ip |-> 0,
         op |-> globals.TOTAL_FRAMES,
         st |-> 0]

create_line_layer(y_pos, width, delay_frame, name) ==
    LET start_frame == delay_frame
        end_frame == delay_frame + 15
        line_path == [c |-> FALSE,
                      v |-> << <<55, y_pos>>, <<55 + width - 55, y_pos>> >>,
                      i |-> << <<0, 0>>, <<0, 0>> >>,
                      o |-> << <<0, 0>>, <<0, 0>> >>]
    IN  [ty |-> 4,
         nm |-> name,
         sr |-> 1,
         ks |-> [a |-> static_value(<<0, 0>>),
                 p |-> static_value(<<0, 0>>),
                 s |-> static_value(<<100, 100>>),
                 r |-> static_value(0),
                 o |-> static_value(100)],
         shapes |-> << [ty |-> "gr",
                        it |-> << create_path(line_path),
                                  create_stroke(GRAY_LINE, 3),
                                  create_trim(<<start_frame, start_frame>>, end_frame),
                                  create_transform_default >>,
                        nm |-> name] >>,
         ip |-> 0,
         op |-> globals.TOTAL_FRAMES,
         st |-> 0]

\* variant: the layer becomes active only when its pop-in starts
create_circle_layer_ActiveFromPop ==
    LET start_frame == 45
        end_frame == 65
    IN  [ty |-> 4,
         nm |-> "Green Circle",
         sr |-> 1,
         ks |-> [a |-> static_value(<<140, 140>>),
                 p |-> static_value(<<140, 140>>),
                 s |-> animated_value(<<
                        keyframe(start_frame, PyList(<<0, 0>>), EASE_OUT_BACK, FALSE),
                        keyframe(end_frame, PyList(<<100, 100>>), PyNone, FALSE) >>),
                 r |-> static_value(0),
                 o |-> static_value(100)],
         shapes |-> << [ty |-> "gr",
                        it |-> << create_ellipse(140, 140, 35, 35),
                                  create_fill(GREEN),
                                  create_transform_default >>,
                        nm |-> "Circle"] >>,
         ip |-> start_frame,
         op |-> globals.TOTAL_FRAMES,
         st |-> 0]

create_circle_layer ==
    LET start_frame == 45
        end_frame == 65
    IN  [ty |-> 4,
         nm |-> "Green Circle",
         sr |-> 1,
         ks |-> [a |-> static_value(<<140, 140>>),
                 p |-> static_value(<<140, 140>>),
                 s |-> animated_value(<<
                        keyframe(start_frame, PyList(<<0, 0>>), EASE_OUT_BACK, FALSE),
                        keyframe(end_frame, PyList(<<100, 100>>), PyNone, FALSE) >>),
                 r |-> static_value(0),
                 o |-> static_value(100)],
         shapes |-> << [ty |-> "gr",
                        it |-> << create_ellipse(140, 140, 35, 35),
                                  create_fill(GREEN),
                                  create_transform_default >>,
                        nm |-> "Circle"] >>,
         ip |-> 0,
         op |-> globals.TOTAL_FRAMES,
         st |-> 0]

\* variant: the reveal starts after the pop-in is over and runs past the
\* last frame
create_checkmark_layer_Late ==
    LET start_frame == 70
        end_frame == 125
        check_path == [c |-> FALSE,
                       v |-> << <<125, 140>>, <<135, 150>>, <<158, 125>> >>,
                       i |-> << <<0, 0>>, <<0, 0>>, <<0, 0>> >>,
                       o |-> << <<0, 0>>, <<0, 0>>, <<0, 0>> >>]
    IN  [ty |-> 4,
         nm |-> "Checkmark",
         sr |-> 1,
         ks |-> [a |-> static_value(<<0, 0>>),
                 p |-> static_value(<<0, 0>>),
                 s |-> static_value(<<100, 100>>),
                 r |-> static_value(0),
                 o |-> static_value(100)],
         shapes |-> << [ty |-> "gr",
                        it |-> << create_path(check_path),
                                  create_stroke(WHITE, 6),
                                  create_trim(<<start_frame, start_frame>>, end_frame),
                                  create_transform_default >>,
                        nm |-> "Check"] >>,
         ip |-> 0,
         op |-> globals.TOTAL_FRAMES,
         st |-> 0]

create_checkmark_layer ==
    LET start_frame == 60
        end_frame == 85
        check_path == [c |-> FALSE,
                       v |-> << <<125, 140>>, <<135, 150>>, <<158, 125>> >>,
                       i |-> << <<0, 0>>, <<0, 0>>, <<0, 0>> >>,
                       o |-> << <<0, 0>>, <<0, 0>>, <<0, 0>> >>]
    IN  [ty |-> 4,
         nm |-> "Checkmark",
         sr |-> 1,
         ks |-> [a |-> static_value(<<0, 0>>),
                 p |-> static_value(<<0, 0>>),
                 s |-> static_value(<<100, 100>>),
                 r |-> static_value(0),
                 o |-> static_value(100)],
         shapes |-> << [ty |-> "gr",
                        it |-> << create_path(check_path),
                                  create_stroke(WHITE, 6),
                                  create_trim(<<start_frame, start_frame>>, end_frame),
                                  create_transform_default >>,
                        nm |-> "Check"] >>,
         ip |-> 0,
         op |-> globals.TOTAL_FRAMES,
         st |-> 0]

----------------------------------------------------------------------------
(* Document assembly, lines 312-335 *)

\* variant: the layers listed back to front, receipt first
LayerCalls_BackToFront ==
    << create_receipt_layer,
       create_line_layer(50, 145, 20, "Line 1"),
       create_line_layer(70, 130, 25, "Line 2"),
       create_line_layer(90, 140, 30, "Line 3"),
       create_line_layer(110, 120, 35, "Line 4"),
       create_circle_layer,
       create_checkmark_layer >>

\* the elements of the "layers" list display, in evaluation order (324-332)
LayerCalls ==
    << create_checkmark_layer,
       create_circle_layer,
       create_line_layer(110, 120, 35, "Line 4"),
       create_line_layer(90, 140, 30, "Line 3"),
       create_line_layer(70, 130, 25, "Line 2"),
       create_line_layer(50, 145, 20, "Line 1"),
       create_receipt_layer >>

\* the dict display of lines 314-333 around a given layer list
AnimationWith(layers) ==
    [v |-> "5.7.4",
     fr |-> globals.FPS,
     ip |-> 0,
     op |-> globals.TOTAL_FRAMES,
     w |-> CANVAS_WIDTH,
     h |-> CANVAS_HEIGHT,
     nm |-> "ReceiptKeeper Splash",
     ddd |-> 0,
     assets |-> <<>>,
     layers |-> layers]

create_lottie_animation == AnimationWith(LayerCalls)

----------------------------------------------------------------------------
(* json.dump(animation, f, indent=2), line 342: the encoder walks the       *)
(* document in key insertion order and hands the text to f.write() piece by *)
(* piece. A piece is modelled per top-level unit: the head (the scalar      *)
(* fields up to "assets", in source order), one piece per layer in list     *)
(* order, and the closing brackets.                                         *)

\* a layer's members in the order its dict display lists them
EncodeLayer(layer) ==
    << "layer",
       << <<"ty", layer.ty>>, <<"nm", layer.nm>>, <<"sr", layer.sr>>,
          <<"ks", << <<"a", layer.ks.a>>, <<"p", layer.ks.p>>, <<"s", layer.ks.s>>,
                     <<"r", layer.ks.r>>, <<"o", layer.ks.o>> >> >>,
          <<"shapes", layer.shapes>>,
          <<"ip", layer.ip>>, <<"op", layer.op>>, <<"st", layer.st>> >> >>

EncodeHead(doc) ==
    << "head",
       << <<"v", doc.v>>, <<"fr", doc.fr>>, <<"ip", doc.ip>>, <<"op", doc.op>>,
          <<"w", doc.w>>, <<"h", doc.h>>, <<"nm", doc.nm>>, <<"ddd", doc.ddd>>,
          <<"assets", doc.assets>> >> >>

JsonChunks(doc) ==
    <<EncodeHead(doc)>>
    \o [n \in 1..Len(doc.layers) |-> EncodeLayer(doc.layers[n])]
    \o << <<"tail", <<>> >> >>

\* what an earlier, unrelated writer may have left at the output path
StaleContent == << <<"stale", <<>> >> >>

output_path == "../assets/splash_animation.json"

----------------------------------------------------------------------------
(* State *)

NoFile == [exists |-> FALSE, data |-> <<>>]
ClosedHandle == [open |-> FALSE, pos |-> 0, buf |-> <<>>]
NoRun == [status |-> "none", animation |-> PyNone, disk |-> NoFile,
          stdout |-> <<>>, error |-> "none"]
NoCall == [fn |-> "none", args |-> <<>>, val |-> PyNone]

\* the directory ../assets exists or not; the path may be written or not
Envs == [dir : BOOLEAN, writable : BOOLEAN]

\* the file is absent, or holds what something else wrote there before
InitialDisks(e) ==
    IF e.dir THEN {NoFile, [exists |-> TRUE, data |-> StaleContent]} ELSE {NoFile}

\* before line 19 has run, TOTAL_FRAMES is unbound
UnloadedGlobals(fps, tenths) == [FPS |-> fps, DURATION_SECONDS |-> tenths]

InitWith(g) ==
    /\ globals = g
    /\ pc = "load"
    /\ run = 0
    /\ animation = PyNone
    /\ evaluated = 0
    /\ env \in Envs
    /\ disk \in InitialDisks(env)
    /\ handle = ClosedHandle
    /\ stdout = <<>>
    /\ error = "none"
    /\ prevRun = NoRun
    /\ ret = NoCall

\* the script as committed: FPS = 60, DURATION_SECONDS = 2.0
Init == InitWith(UnloadedGlobals(FPS, DURATION_SECONDS))

----------------------------------------------------------------------------
(* Module load and main(), lines 15-19 and 337-349 *)

\* lines 15-19: the interpreter binds the module constants
LoadModule ==
    /\ pc = "load"
    /\ globals' = ModuleGlobals(globals.FPS, globals.DURATION_SECONDS)
    /\ pc' = "loaded"
    /\ UNCHANGED <<run, animation, evaluated, env, disk, handle, stdout, error, prevRun, ret>>

\* variant: the list is a module-level object that earlier calls appended to
StaleLayers == IF Truthy(animation) THEN animation.layers ELSE <<>>

\* the "layers" list as a call of create_lottie_animation() starts it
FreshLayers == <<>>

\* line 349 / 338: main() is entered and calls create_lottie_animation().
\* A later execution starts from what the earlier one left on the device;
\* whether it runs in the same interpreter or a new one, the module
\* constants are bound to the same values.
EnterMain ==
    /\ pc \in {"loaded", "done", "aborted"}
    /\ run < MaxRuns
    /\ prevRun' = [status |-> pc, animation |-> animation, disk |-> disk,
                   stdout |-> stdout, error |-> error]
    /\ run' = run + 1
    /\ pc' = "build"
    /\ animation' = AnimationWith(FreshLayers)
    /\ evaluated' = 0
    /\ handle' = ClosedHandle
    /\ stdout' = <<>>
    /\ error' = "none"
    /\ UNCHANGED <<globals, env, disk, ret>>

\* lines 324-332: the next element of the layer list is evaluated
BuildLayer ==
    /\ pc = "build"
    /\ evaluated < Len(LayerCalls)
    /\ animation' = AnimationWith(Append(animation.layers, LayerCalls[evaluated + 1]))
    /\ evaluated' = evaluated + 1
    /\ UNCHANGED <<globals, pc, run, env, disk, handle, stdout, error, prevRun, ret>>

\* line 335: the finished document is returned to main()
ReturnAnimation ==
    /\ pc = "build"
    /\ evaluated = Len(LayerCalls)
    /\ pc' = "open"
    /\ UNCHANGED <<globals, run, animation, evaluated, env, disk, handle, stdout, error, prevRun, ret>>

\* the exception leaves main(): nothing after the with statement runs
Abort(exc) ==
    /\ error' = exc
    /\ pc' = "aborted"

\* line 341: open(output_path, "w") creates or truncates the file
OpenFile ==
    /\ pc = "open"
    /\ IF ~env.dir
       THEN Abort("FileNotFoundError") /\ UNCHANGED <<disk, handle>>
       ELSE IF ~env.writable
       THEN Abort("PermissionError") /\ UNCHANGED <<disk, handle>>
       ELSE /\ disk' = [exists |-> TRUE, data |-> <<>>]
            /\ handle' = [open |-> TRUE, pos |-> 0, buf |-> <<>>]
            /\ pc' = "dump"
            /\ UNCHANGED error
    /\ UNCHANGED <<globals, run, animation, evaluated, env, stdout, prevRun, ret>>

\* a flush that fails: some prefix of the pending text reached the device,
\* the with statement closes the file and the OSError propagates
FlushFails(pending) ==
    /\ \E n \in 0..Len(pending) :
            disk' = [disk EXCEPT !.data = disk.data \o SubSeq(pending, 1, n)]
    /\ handle' = ClosedHandle
    /\ Abort("OSError")

\* line 342: json.dump hands the next piece to f.write(); the buffered
\* writer keeps it, or flushes what it holds when its buffer is full
DumpChunk ==
    /\ pc = "dump"
    /\ handle.pos < Len(JsonChunks(animation))
    /\ LET pending == Append(handle.buf, JsonChunks(animation)[handle.pos + 1])
       IN  \/ /\ handle' = [handle EXCEPT !.pos = handle.pos + 1, !.buf = pending]
              /\ UNCHANGED <<disk, pc, error>>
           \/ /\ disk' = [disk EXCEPT !.data = disk.data \o pending]
              /\ handle' = [handle EXCEPT !.pos = handle.pos + 1, !.buf = <<>>]
              /\ UNCHANGED <<pc, error>>
           \/ FlushFails(pending)
    /\ UNCHANGED <<globals, run, animation, evaluated, env, stdout, prevRun, ret>>

\* line 341-342: leaving the with block closes f, which flushes the rest
CloseFile ==
    /\ pc = "dump"
    /\ handle.pos = Len(JsonChunks(animation))
    /\ \/ /\ disk' = [disk EXCEPT !.data = disk.data \o handle.buf]
          /\ handle' = ClosedHandle
          /\ pc' = "print"
          /\ UNCHANGED error
       \/ /\ handle.buf # <<>>
          /\ FlushFails(handle.buf)
    /\ UNCHANGED <<globals, run, animation, evaluated, env, stdout, prevRun, ret>>

\* the three status lines, lines 344-346
StatusLines ==
    << <<"saved", output_path>>,
       <<"duration", globals.DURATION_SECONDS, globals.TOTAL_FRAMES, globals.FPS>>,
       <<"canvas", CANVAS_WIDTH, CANVAS_HEIGHT>> >>

PrintLine ==
    /\ pc = "print"
    /\ stdout' = Append(stdout, StatusLines[Len(stdout) + 1])
    /\ pc' = IF Len(stdout') = Len(StatusLines) THEN "done" ELSE "print"
    /\ UNCHANGED <<globals, run, animation, evaluated, env, disk, handle, error, prevRun, ret>>

Next ==
    \/ LoadModule
    \/ EnterMain
    \/ BuildLayer
    \/ ReturnAnimation
    \/ OpenFile
    \/ DumpChunk
    \/ CloseFile
    \/ PrintLine

Spec == Init /\ [][Next]_vars

----------------------------------------------------------------------------
(* The constructors called directly on the loaded module, with arguments   *)
(* drawn from small sets.                                                  *)

Frames == 0..MaxFrame
LineYs == {50, 110}
LineWidths == {120, 145}
LineNames == {"Line 1", "Line 4"}

\* every variable but the record of the call
CallFrame ==
    /\ pc = "loaded"
    /\ UNCHANGED <<globals, pc, run, animation, evaluated, env, disk, handle,
                   stdout, error, prevRun>>

CallTrim ==
    /\ CallFrame
    /\ \E s0 \in Frames, s1 \in Frames, e \in Frames :
        ret' = [fn |-> "create_trim", args |-> << <<s0, s1>>, e >>,
                val |-> create_trim(<<s0, s1>>, e)]

CallLineLayer ==
    /\ CallFrame
    /\ \E y \in LineYs, w \in LineWidths, d \in Frames, name \in LineNames :
        ret' = [fn |-> "create_line_layer", args |-> <<y, w, d, name>>,
                val |-> create_line_layer(y, w, d, name)]

CallReceiptLayer ==
    /\ CallFrame
    /\ ret' = [fn |-> "create_receipt_layer", args |-> <<>>,
               val |-> create_receipt_layer]

CallCircleLayer ==
    /\ CallFrame
    /\ ret' = [fn |-> "create_circle_layer", args |-> <<>>,
               val |-> create_circle_layer]

CallCheckmarkLayer ==
    /\ CallFrame
    /\ ret' = [fn |-> "create_checkmark_layer", args |-> <<>>,
               val |-> create_checkmark_layer]

CallAnimation ==
    /\ CallFrame
    /\ ret' = [fn |-> "create_lottie_animation", args |-> <<>>,
               val |-> create_lottie_animation]

NextCalls ==
    \/ LoadModule
    \/ CallTrim
    \/ CallLineLayer
    \/ CallReceiptLayer
    \/ CallCircleLayer
    \/ CallCheckmarkLayer
    \/ CallAnimation

SpecCalls == Init /\ [][NextCalls]_vars

(* The module loaded under other settings of FPS and DURATION_SECONDS      *)
(* (lines 17-18 edited), then asked for the document.                      *)

InitFrames ==
    \E fps \in 1..MaxFps, tenths \in 1..MaxTenths :
        InitWith(UnloadedGlobals(fps, tenths))

NextFrames ==
    \/ LoadModule
    \/ CallAnimation

SpecFrames == InitFrames /\ [][NextFrames]_vars

----------------------------------------------------------------------------
(* Reading a document *)

\* main() holds the document create_lottie_animation() returned
Returned == pc \in {"open", "dump", "print", "done", "aborted"}

LayerFns == {"create_receipt_layer", "create_line_layer",
             "create_circle_layer", "create_checkmark_layer"}

Names(doc) == [n \in 1..Len(doc.layers) |-> doc.layers[n].nm]

LayerNamed(doc, name) ==
    doc.layers[CHOOSE n \in 1..Len(doc.layers) : doc.layers[n].nm = name]

\* the Trim item of a layer's (single) shape group
HasTrim(layer) == \E n \in 1..Len(layer.shapes[1].it) : layer.shapes[1].it[n].ty = "tm"
TrimOf(layer) ==
    LET it == layer.shapes[1].it
    IN  it[CHOOSE n \in 1..Len(it) : it[n].ty = "tm"]

\* the members of a shape item that are property values
PropFields(ty) ==
    CASE ty = "rc" -> {"p", "s", "r"}
      [] ty = "fl" -> {"c", "o"}
      [] ty = "st" -> {"c", "o", "w"}
      [] ty = "el" -> {"p", "s"}
      [] ty = "sh" -> {"ks"}
      [] ty = "tm" -> {"s", "e", "o"}
      [] ty = "tr" -> {"a", "p", "s", "r", "o"}

TransformFields == {"a", "p", "s", "r", "o"}

\* an animated property whose keyframes are in order and end by frame `last`
TimesInOrder(prop, last) ==
    prop.a = 1 =>
        /\ \A n \in 1..(Len(prop.k) - 1) : prop.k[n].t <= prop.k[n + 1].t
        /\ Len(prop.k) > 0 => prop.k[Len(prop.k)].t <= last

AllTimesInOrder(doc, last) ==
    \A n \in 1..Len(doc.layers) :
        LET layer == doc.layers[n]
        IN  /\ \A f \in TransformFields : TimesInOrder(layer.ks[f], last)
            /\ \A g \in 1..Len(layer.shapes) :
                 \A m \in 1..Len(layer.shapes[g].it) :
                    LET item == layer.shapes[g].it[m]
                    IN  \A f \in PropFields(item.ty) : TimesInOrder(item[f], last)

\* some property of the document is animated: the set of <<layer, field>>
AnimatedTransformFields(doc) ==
    {<<n, f>> \in (1..Len(doc.layers)) \X TransformFields : doc.layers[n].ks[f].a = 1}

\* the keyframe carries exactly this easing / none
CarriesEasing(kf, easing) ==
    /\ DOMAIN kf = {"t", "s", "i", "o"}
    /\ kf.i = easing.i
    /\ kf.o = easing.o
CarriesNoEasing(kf) == DOMAIN kf = {"t", "s"}

IsStatic(prop, value) == prop.a = 0 /\ prop.k = value

----------------------------------------------------------------------------
(* C1 *)

ExpectedNames ==
    <<"Checkmark", "Green Circle", "Line 4", "Line 3", "Line 2", "Line 1", "Receipt Paper">>

\* the frame a line layer's reveal starts at: its delay
DelayOf(layer) == TrimOf(layer).e.k[1].t

\* C1: the returned document has exactly 7 layers, named in list order
\* Checkmark, Green Circle, Line 4, Line 3, Line 2, Line 1, Receipt Paper,
\* and the four line layers (positions 3..6) have strictly decreasing delays
\* 35, 30, 25, 20.
C1_LayerOrder ==
    Returned =>
        /\ Len(animation.layers) = 7
        /\ Names(animation) = ExpectedNames
        /\ \A n \in 3..5 : DelayOf(animation.layers[n]) > DelayOf(animation.layers[n + 1])
        /\ [n \in 1..4 |-> DelayOf(animation.layers[n + 2])] = <<35, 30, 25, 20>>

C1_Witness ==
    /\ pc = "done"
    /\ Names(animation) = ExpectedNames

----------------------------------------------------------------------------
(* C2 *)

\* C2: every layer a builder returns, for any arguments, has ip = 0 and
\* op = TOTAL_FRAMES, and in the document these equal the document's own ip
\* and op.
C2_LayersAlwaysActive ==
    /\ ret.fn \in LayerFns =>
            ret.val.ip = 0 /\ ret.val.op = globals.TOTAL_FRAMES
    /\ ret.fn = "create_lottie_animation" =>
            /\ ret.val.ip = 0
            /\ ret.val.op = globals.TOTAL_FRAMES
            /\ Len(ret.val.layers) = 7
            /\ \A n \in 1..Len(ret.val.layers) :
                    /\ ret.val.layers[n].ip = ret.val.ip
                    /\ ret.val.layers[n].op = ret.val.op

C2_Witness ==
    /\ ret.fn = "create_line_layer"
    /\ ret.args[3] > 0
    /\ ret.val.op = 120

----------------------------------------------------------------------------
(* C3 *)

\* C3: in the returned document every animated property has non-decreasing
\* keyframe times and its last keyframe is at most TOTAL_FRAMES = 120.
C3_KeyframeTimesOrdered ==
    Returned =>
        /\ globals.TOTAL_FRAMES = 120
        /\ AllTimesInOrder(animation, globals.TOTAL_FRAMES)

C3_Witness ==
    /\ Returned
    /\ AnimatedTransformFields(animation) # {}
    /\ \E n \in 1..Len(animation.layers) :
            HasTrim(animation.layers[n]) /\ TrimOf(animation.layers[n]).e.a = 1

----------------------------------------------------------------------------
(* C4 *)

\* C4: create_trim(start_frames, end_frame) returns a trim whose start is 0 at
\* the two hold keyframes (times start_frames[0], start_frames[1]) and 0 at
\* end_frame; whose end is 0 at the two hold keyframes and 100 exactly at the
\* keyframe at end_frame; the hold keyframes carry EASE_OUT, the final one no
\* easing; offset is static 0 and m is 1.
C4_TrimShape ==
    ret.fn = "create_trim" =>
        LET trim == ret.val
            s0 == ret.args[1][1]
            s1 == ret.args[1][2]
            end == ret.args[2]
        IN  /\ trim.s.a = 1 /\ trim.e.a = 1
            /\ Len(trim.s.k) = 3 /\ Len(trim.e.k) = 3
            /\ [n \in 1..3 |-> trim.s.k[n].t] = <<s0, s1, end>>
            /\ [n \in 1..3 |-> trim.e.k[n].t] = <<s0, s1, end>>
            /\ [n \in 1..3 |-> trim.s.k[n].s] = << <<0>>, <<0>>, <<0>> >>
            /\ [n \in 1..3 |-> trim.e.k[n].s] = << <<0>>, <<0>>, <<100>> >>
            /\ \A n \in 1..2 : /\ CarriesEasing(trim.s.k[n], EASE_OUT)
                               /\ CarriesEasing(trim.e.k[n], EASE_OUT)
            /\ CarriesNoEasing(trim.s.k[3])
            /\ CarriesNoEasing(trim.e.k[3])
            /\ IsStatic(trim.o, 0)
            /\ trim.m = 1

C4_Witness ==
    /\ ret.fn = "create_trim"
    /\ ret.args[1][1] < ret.args[1][2]
    /\ ret.args[1][2] < ret.args[2]
    /\ ret.val.e.k[3].s = <<100>>

----------------------------------------------------------------------------
(* C5 *)

\* the frames at which the end property holds the value v
TimesAt(prop, v) == {prop.k[n].t : n \in {m \in 1..Len(prop.k) : prop.k[m].s = <<v>>}}

\* C5: for any delay_frame, the Trim of create_line_layer(y_pos, width,
\* delay_frame, name) has an end property that is 0 at delay_frame and is 100
\* exactly at delay_frame + 15; the four lines of the document complete at
\* frames 35, 40, 45 and 50.
C5_LineRevealWindow ==
    /\ ret.fn = "create_line_layer" =>
            LET end == TrimOf(ret.val).e
                delay == ret.args[3]
            IN  /\ HasTrim(ret.val)
                /\ end.a = 1
                /\ TimesAt(end, 0) = {delay}
                /\ TimesAt(end, 100) = {delay + 15}
                /\ end.k[Len(end.k)].t = delay + 15
    /\ ret.fn = "create_lottie_animation" =>
            /\ TimesAt(TrimOf(LayerNamed(ret.val, "Line 1")).e, 100) = {35}
            /\ TimesAt(TrimOf(LayerNamed(ret.val, "Line 2")).e, 100) = {40}
            /\ TimesAt(TrimOf(LayerNamed(ret.val, "Line 3")).e, 100) = {45}
            /\ TimesAt(TrimOf(LayerNamed(ret.val, "Line 4")).e, 100) = {50}

C5_Witness ==
    /\ ret.fn = "create_line_layer"
    /\ ret.args[3] = MaxFrame
    /\ TimesAt(TrimOf(ret.val).e, 100) = {MaxFrame + 15}

----------------------------------------------------------------------------
(* C6 *)

\* round(fps * duration) as Python's round() gives it on the double product:
\* halves go to the even neighbour, and the pairs below are the ones (for
\* frame rates up to 64 and durations up to 4.0 s) whose double product lies
\* just under or just over an exact half
HalfFallsBelow == {<<25, 23>>, <<45, 7>>, <<45, 23>>}
HalfFallsAbove == {<<55, 11>>}

RoundOfProduct(fps, tenths) ==
    LET whole == (fps * tenths) \div 10
        rest == (fps * tenths) % 10
    IN  IF rest < 5 THEN whole
        ELSE IF rest > 5 THEN whole + 1
        ELSE IF <<fps, tenths>> \in HalfFallsBelow THEN whole
        ELSE IF <<fps, tenths>> \in HalfFallsAbove THEN whole + 1
        ELSE IF whole % 2 = 0 THEN whole ELSE whole + 1

----------------------------------------------------------------------------
(* C7 *)

\* C7: the Receipt Paper layer's scale is animated with exactly the keyframes
\* (t=0, [0,0], overshoot easing) and (t=25, [100,100]); its opacity is
\* animated with exactly (t=0, [0], ease-out) and (t=15, [100]); anchor,
\* position and rotation are static.
C7_ReceiptEntrance ==
    Returned =>
        LET ks == LayerNamed(animation, "Receipt Paper").ks
        IN  /\ ks.s.a = 1
            /\ Len(ks.s.k) = 2
            /\ ks.s.k[1].t = 0 /\ ks.s.k[1].s = <<0, 0>>
            /\ CarriesEasing(ks.s.k[1], EASE_OUT_BACK)
            /\ ks.s.k[2].t = 25 /\ ks.s.k[2].s = <<100, 100>>
            /\ ks.o.a = 1
            /\ Len(ks.o.k) = 2
            /\ ks.o.k[1].t = 0 /\ ks.o.k[1].s = <<0>>
            /\ CarriesEasing(ks.o.k[1], EASE_OUT)
            /\ ks.o.k[2].t = 15 /\ ks.o.k[2].s = <<100>>
            /\ ks.a.a = 0 /\ ks.p.a = 0 /\ ks.r.a = 0

C7_Witness ==
    /\ Returned
    /\ animation.layers[7].nm = "Receipt Paper"
    /\ animation.layers[7].ks.o.k[2].t = 15

----------------------------------------------------------------------------
(* C8 *)

\* C8: an execution that completes after an earlier one completed has built
\* the same document, left the same file content and printed the same lines;
\* nothing the earlier execution or an earlier constructor call left changes
\* the result.
C8_RunsAgree ==
    (pc = "done" /\ prevRun.status = "done") =>
        /\ animation = prevRun.animation
        /\ disk = prevRun.disk
        /\ stdout = prevRun.stdout

C8_Witness ==
    /\ pc = "done"
    /\ run = 2
    /\ prevRun.status = "done"
    /\ Len(disk.data) = Len(LayerCalls) + 2

----------------------------------------------------------------------------
(* C9 *)

\* the document is complete before the file is opened or anything is written
C9_BuiltBeforeOpen ==
    (handle.open \/ pc \in {"dump", "print", "done"}) =>
        /\ evaluated = Len(LayerCalls)
        /\ Len(animation.layers) = Len(LayerCalls)

\* a failed open or write surfaces the I/O error and prints nothing
C9_FailureSurfaced ==
    pc = "aborted" =>
        /\ error \in {"FileNotFoundError", "PermissionError", "OSError"}
        /\ stdout = <<>>
        /\ ~handle.open

\* a failed run leaves the output path as the run found it
C9_NoPartialOutput ==
    pc = "aborted" => disk = prevRun.disk

\* C9: in main() the document is completely built before the output file is
\* opened or written; if opening or writing fails the run aborts with the
\* I/O failure surfaced, prints none of the status lines, and leaves no
\* partial output behind.
C9_FailureLeavesNothing ==
    /\ C9_BuiltBeforeOpen
    /\ C9_FailureSurfaced
    /\ C9_NoPartialOutput

----------------------------------------------------------------------------
(* C10 *)

FirstTime(prop) == prop.k[1].t
LastTime(prop) == prop.k[Len(prop.k)].t

\* the frames at which each element's reveal starts and ends, in the
\* documented sequence
PhaseChain(doc) ==
    << FirstTime(LayerNamed(doc, "Receipt Paper").ks.s),
       FirstTime(TrimOf(LayerNamed(doc, "Line 1")).e),
       FirstTime(TrimOf(LayerNamed(doc, "Line 2")).e),
       FirstTime(TrimOf(LayerNamed(doc, "Line 3")).e),
       FirstTime(TrimOf(LayerNamed(doc, "Line 4")).e),
       FirstTime(LayerNamed(doc, "Green Circle").ks.s),
       FirstTime(TrimOf(LayerNamed(doc, "Checkmark")).e),
       LastTime(LayerNamed(doc, "Green Circle").ks.s),
       LastTime(TrimOf(LayerNamed(doc, "Checkmark")).e) >>

\* C10: receipt start < Line 1 start < Line 2 start < Line 3 start < Line 4
\* start < circle pop-in start < checkmark trim start < circle pop-in end <
\* checkmark trim end.
C10_PhaseOrder ==
    Returned =>
        \A n \in 1..(Len(PhaseChain(animation)) - 1) :
            PhaseChain(animation)[n] < PhaseChain(animation)[n + 1]

C10_Witness ==
    /\ Returned
    /\ PhaseChain(animation) = <<0, 20, 25, 30, 35, 45, 60, 65, 85>>

====
